---- MODULE Spec2Model ----
(***************************************************************************)
(* Keydash: the practice session engine (App component), the chord         *)
(* selection functions (chordUtils) and the sound module (soundUtils).     *)
(*                                                                         *)
(* Line references are to src/src/utils/chordUtils.ts (selection functions *)
(* and the App component), src/src/utils/soundUtils.ts and                 *)
(* src/src/data/chords.ts.                                                 *)
(***************************************************************************)
EXTENDS Integers, Sequences, FiniteSets, TLC

(***************************************************************************)
(* Bounds of the model.                                                    *)
(***************************************************************************)
\* how many chords of the catalog the model keeps (a prefix of CHORD_TABLE)
NumChords == 3
\* chordChangeCount is capped: a step that would bump it past the cap is disabled
MaxChanges == 3
\* callbacks that may be pending at the same time: handleStart and playChord
\* calls suspended at an await, and release timers (setTimeout 2000)
MaxPending == 1
\* the settings panel moves the countdown slider within MinCountdown..MaxSlider
MaxSlider == 2
\* the sound specification lets this many calls of the sound module wait at
\* the same time
MaxCalls == 2

(***************************************************************************)
(* Program constants.                                                      *)
(***************************************************************************)
\* the countdown slider: min="1" max="10"
MinCountdown == 1
MaxCountdown == 10
\* noteToToneFormat appends the octave 4
DefaultOctave == 4
\* the delay of the release timer playChord schedules, in milliseconds
RELEASE_MS == 2000

NoChord == "null"

(***************************************************************************)
(* The chord catalog, data/chords.ts: id, type, difficulty and notes of    *)
(* the catalog entries the model keeps, in catalog order.                  *)
(***************************************************************************)
CHORD_TABLE ==
  << [id |-> "C-major",  type |-> "major", difficulty |-> "beginner",
      notes |-> <<"C4", "E4", "G4">>],
     [id |-> "D-minor",  type |-> "minor", difficulty |-> "beginner",
      notes |-> <<"D4", "F4", "A4">>],
     [id |-> "B-major",  type |-> "major", difficulty |-> "intermediate",
      notes |-> <<"B3", "D#4", "F#4">>],
     [id |-> "G#-minor", type |-> "minor", difficulty |-> "advanced",
      notes |-> <<"G#4", "B4", "D#5">>],
     [id |-> "Eb-minor", type |-> "minor", difficulty |-> "advanced",
      notes |-> <<"Eb4", "Gb4", "Bb4">>] >>

CHORDS ==
  SubSeq(CHORD_TABLE, 1, IF NumChords < Len(CHORD_TABLE) THEN NumChords ELSE Len(CHORD_TABLE))

ChordIds == { CHORDS[i].id : i \in 1..Len(CHORDS) }

ChordById(id) == CHOOSE c \in { CHORDS[i] : i \in 1..Len(CHORDS) } : c.id = id

ChordTypes == {"major", "minor"}
Difficulties == {"beginner", "intermediate", "advanced"}
GameModes == {"speed", "beginner"}

(***************************************************************************)
(* getAvailableChords, chordUtils.ts 21-40.  Array.prototype.filter is      *)
(* SelectSeq: the elements passing the test, in order.                     *)
(***************************************************************************)
FilterBySelection(settings, chords) ==
  LET InSel(c) == c.id \in settings.selectedChords
  IN IF settings.mode = "selected" /\ Cardinality(settings.selectedChords) > 0
     THEN SelectSeq(chords, InSel)
     ELSE chords

FilterByType(settings, chords) ==
  LET InTypes(c) == c.type \in settings.chordTypes
  IN IF Cardinality(settings.chordTypes) > 0
     THEN SelectSeq(chords, InTypes)
     ELSE chords

\* variant: 'all' is compared with the chords' difficulty like any other value
FilterByDifficulty_NoAll(settings, chords) ==
  LET SameDiff(c) == c.difficulty = settings.difficulty
  IN SelectSeq(chords, SameDiff)

FilterByDifficulty(settings, chords) ==
  LET SameDiff(c) == c.difficulty = settings.difficulty
  IN IF settings.difficulty # "all"
     THEN SelectSeq(chords, SameDiff)
     ELSE chords

getAvailableChords(settings) ==
  FilterByDifficulty(settings, FilterByType(settings, FilterBySelection(settings, CHORDS)))

(***************************************************************************)
(* getRandomChord, chordUtils.ts 7-16.  randomIndex is the value of        *)
(* Math.floor(Math.random() * availableChords.length).  The function has   *)
(* one parameter: a second argument passed by a caller is not read.        *)
(***************************************************************************)
RandomIndices(settings) ==
  LET n == Len(getAvailableChords(settings))
  IN IF n = 0 THEN {0} ELSE 0..(n - 1)

\* variant: an empty pool falls back to the first chord of the catalog
getRandomChord_CatalogFallback(settings, randomIndex) ==
  LET availableChords == getAvailableChords(settings)
  IN IF Len(availableChords) = 0
     THEN CHORDS[1].id
     ELSE availableChords[randomIndex + 1].id

getRandomChord(settings, randomIndex) ==
  LET availableChords == getAvailableChords(settings)
  IN IF Len(availableChords) = 0
     THEN NoChord
     ELSE availableChords[randomIndex + 1].id

\* variant: the current chord is taken out of the pool before the draw
getNextChord_ExcludesCurrent(settings, currentChord, randomIndex) ==
  LET NotCurrent(c) == c.id # currentChord
      others == SelectSeq(getAvailableChords(settings), NotCurrent)
  IN IF Len(others) = 0
     THEN NoChord
     ELSE others[(randomIndex % Len(others)) + 1].id

\* getNextChord, chordUtils.ts 113-115: getRandomChord(settings, gameState.currentChord)
getNextChord(settings, currentChord, randomIndex) ==
  getRandomChord(settings, randomIndex)

(***************************************************************************)
(* IEEE-754 double arithmetic of the countdown, chordUtils.ts 212-214.     *)
(* Every value the timer holds is a non-negative multiple of 2^-56 below   *)
(* 16; it is kept as three limbs <<hi, mid, lo>> in base 2^20, the number  *)
(* (hi * 2^40 + mid * 2^20 + lo) * 2^-56.                                  *)
(***************************************************************************)
Limb == 2 ^ 20

Pow2(n) == 2 ^ n

DZero == <<0, 0, 0>>

\* the double of an integer literal n (0 <= n < 16): n * 2^56 = (n * 2^16) * 2^40
FromInt(n) == <<n * 65536, 0, 0>>

\* the double nearest to 0.1: 0x1999999999999A * 2^-56
TENTH == <<6553, 629145, 629146>>

DLess(a, b) ==
  \/ a[1] < b[1]
  \/ a[1] = b[1] /\ a[2] < b[2]
  \/ a[1] = b[1] /\ a[2] = b[2] /\ a[3] < b[3]

DLeq(a, b) == a = b \/ DLess(a, b)

\* a - b exactly, for b <= a
SubExact(a, b) ==
  LET b3 == IF a[3] < b[3] THEN 1 ELSE 0
      l3 == a[3] - b[3] + b3 * Limb
      b2 == IF a[2] - b3 < b[2] THEN 1 ELSE 0
      l2 == a[2] - b3 - b[2] + b2 * Limb
      l1 == a[1] - b2 - b[1]
  IN <<l1, l2, l3>>

\* number of significant bits of a limb
BitLen(n) == IF n = 0 THEN 0 ELSE CHOOSE k \in 1..20 : Pow2(k - 1) <= n /\ n < Pow2(k)

DBitLen(a) ==
  IF a[1] > 0 THEN 40 + BitLen(a[1])
  ELSE IF a[2] > 0 THEN 20 + BitLen(a[2])
  ELSE BitLen(a[3])

\* a + 2^s carried through the limbs (s < 20)
AddLow(a, inc) ==
  LET s3 == a[3] + inc
      c3 == s3 \div Limb
      s2 == a[2] + c3
      c2 == s2 \div Limb
  IN <<a[1] + c2, s2 % Limb, s3 % Limb>>

\* round to 53 significant bits, ties to even
RoundToDouble(a) ==
  LET s == DBitLen(a) - 53
  IN IF s <= 0 THEN a
     ELSE LET unit == Pow2(s)
              r    == a[3] % unit
              down == <<a[1], a[2], a[3] - r>>
              odd  == ((a[3] \div unit) % 2) = 1
              up   == r * 2 > unit \/ (r * 2 = unit /\ odd)
          IN IF up THEN AddLow(down, unit) ELSE down

\* prev.timeRemaining - 0.1 <= 0
TimeIsUp(timeRemaining) == DLeq(timeRemaining, TENTH)

\* prev.timeRemaining - 0.1, when it is positive
DecrementTenth(timeRemaining) == RoundToDouble(SubExact(timeRemaining, TENTH))

(***************************************************************************)
(* State.                                                                  *)
(*   settings, gameState  the two useState cells of App (100-108)          *)
(*   showChordSelector    the useState cell of the chord selector modal    *)
(*                  (109)                                                  *)
(*   starts         handleStart calls suspended at await preloadSamples(), *)
(*                  each with the state it will write (its closure's chord *)
(*                  and settings, 134-141)                                 *)
(*   sampler        soundUtils: "none" (sampler and samplerLoadingPromise  *)
(*                  null), "loading" (created, onload pending), "loaded"   *)
(*   samplers       history: the Tone.Sampler instances constructed so far *)
(*   activeNotes    soundUtils: the module-level activeNotes array         *)
(*   sounding       the notes the sampler has attacked and not released    *)
(*   plays          playChord calls suspended at one of their awaits, each *)
(*                  with the notes and the duration argument of the call   *)
(*   releaseTimers  pending setTimeout release callbacks: their delays, ms *)
(*   calls          the calls the last step made, in program order, among  *)
(*                  alert, stopAllSounds, setGameState, setSettings and    *)
(*                  playChord                                              *)
(*   ticks          history: the interval callbacks run since the session  *)
(*                  state was last written by handleStart or reset         *)
(***************************************************************************)
VARIABLES settings, showChordSelector, gameState, starts, sampler, samplers,
          activeNotes, sounding, plays, releaseTimers, calls, ticks

vars == <<settings, showChordSelector, gameState, starts, sampler, samplers,
          activeNotes, sounding, plays, releaseTimers, calls, ticks>>

Range(seq) == { seq[i] : i \in 1..Len(seq) }

RemoveAt(seq, i) == SubSeq(seq, 1, i - 1) \o SubSeq(seq, i + 1, Len(seq))

\* DEFAULT_SETTINGS, chordUtils.ts 87-97 (language, display only, is left out)
DEFAULT_SETTINGS ==
  [ gameMode |-> "speed", chordTypes |-> {"major", "minor"}, difficulty |-> "all",
    countdownDuration |-> 5, showChordOnKeyboard |-> TRUE, playSound |-> TRUE,
    selectedChords |-> {}, mode |-> "all" ]

\* the initial gameState, chordUtils.ts 101-108; also what handleStop and an
\* exhausted tick write (160-167, 218-225)
IdleState ==
  [ isPlaying |-> FALSE, isPaused |-> FALSE, currentChord |-> NoChord,
    timeRemaining |-> DZero, chordChangeCount |-> 0, isRevealed |-> FALSE ]

(***************************************************************************)
(* soundUtils.ts                                                           *)
(***************************************************************************)
\* noteToToneFormat, 84-87: `${note}4`
noteToToneFormat(note) == <<note, DefaultOctave>>

toneNotesOf(notes) == [ i \in 1..Len(notes) |-> noteToToneFormat(notes[i]) ]

\* stopAllSounds, 158-164, as a function of the sound state: the new
\* activeNotes and the new sounding set
StoppedActive(samp, active) ==
  IF samp # "none" /\ Len(active) > 0 THEN <<>> ELSE active

StoppedSounding(samp, active, snd) ==
  IF samp # "none" /\ Len(active) > 0 THEN snd \ Range(active) ELSE snd

(***************************************************************************)
(* The sound playback effect, chordUtils.ts 255-260: it runs after a       *)
(* render in which one of its dependencies changed.                        *)
(***************************************************************************)
\* variant: the effect also depends on isPaused
SoundDeps_WithPaused(gs, st) ==
  <<gs.chordChangeCount, st.playSound, st.countdownDuration, gs.isPaused>>

\* variant: the effect depends on the chord instead of the change counter
SoundDeps_ByChord(gs, st) == <<gs.currentChord, st.playSound, st.countdownDuration>>

SoundDeps(gs, st) == <<gs.chordChangeCount, st.playSound, st.countdownDuration>>

SoundCondition(gs, st) ==
  /\ gs.currentChord # NoChord
  /\ st.playSound
  /\ gs.isPlaying
  /\ ~gs.isPaused
  /\ gs.chordChangeCount > 0

\* variant: the effect has no dependency array and runs after every render
SoundEffectFires_EveryRender(prevGs, prevSt, gs, st) ==
  SoundCondition(gs, st)

SoundEffectFires(prevGs, prevSt, gs, st) ==
  /\ SoundDeps(prevGs, prevSt) # SoundDeps(gs, st)
  /\ SoundCondition(gs, st)

(***************************************************************************)
(* Render(gs, stopped, pre, nStarts): the state update gs is committed and *)
(* the effects run.  stopped tells whether the handler called              *)
(* stopAllSounds before the update; pre lists the calls the handler made;  *)
(* nStarts is the number of handleStart calls still suspended.  When the   *)
(* sound effect fires, playChord (93-99) calls stopAllSounds and suspends  *)
(* at await Tone.start().                                                  *)
(***************************************************************************)
\* variant: the effect plays the chord of the render before (a stale
\* closure over gameState)
Render_StaleChord(gs, stopped, pre, nStarts) ==
  LET act1 == IF stopped THEN StoppedActive(sampler, activeNotes) ELSE activeNotes
      snd1 == IF stopped THEN StoppedSounding(sampler, activeNotes, sounding) ELSE sounding
      fires == SoundEffectFires(gameState, settings, gs, settings)
      chord == IF gameState.currentChord = NoChord THEN gs.currentChord
               ELSE gameState.currentChord
  IN /\ gameState' = gs
     /\ IF fires
        THEN /\ nStarts + Len(plays) + Len(releaseTimers) < MaxPending
             /\ plays' = Append(plays, [notes |-> ChordById(chord).notes,
                                        duration |-> settings.countdownDuration,
                                        pc |-> "start"])
             /\ activeNotes' = StoppedActive(sampler, act1)
             /\ sounding' = StoppedSounding(sampler, act1, snd1)
             /\ calls' = pre \o <<"setGameState", "playChord">>
        ELSE /\ plays' = plays
             /\ activeNotes' = act1
             /\ sounding' = snd1
             /\ calls' = pre \o <<"setGameState">>

\* cap: how many callbacks may be pending at the same time
RenderWithin(cap, gs, stopped, pre, nStarts) ==
  LET act1 == IF stopped THEN StoppedActive(sampler, activeNotes) ELSE activeNotes
      snd1 == IF stopped THEN StoppedSounding(sampler, activeNotes, sounding) ELSE sounding
      fires == SoundEffectFires(gameState, settings, gs, settings)
  IN /\ gameState' = gs
     /\ IF fires
        THEN /\ nStarts + Len(plays) + Len(releaseTimers) < cap
             /\ plays' = Append(plays, [notes |-> ChordById(gs.currentChord).notes,
                                        duration |-> settings.countdownDuration,
                                        pc |-> "start"])
             /\ activeNotes' = StoppedActive(sampler, act1)
             /\ sounding' = StoppedSounding(sampler, act1, snd1)
             /\ calls' = pre \o <<"setGameState", "playChord">>
        ELSE /\ plays' = plays
             /\ activeNotes' = act1
             /\ sounding' = snd1
             /\ calls' = pre \o <<"setGameState">>

Render(gs, stopped, pre, nStarts) == RenderWithin(MaxPending, gs, stopped, pre, nStarts)

\* variant: the start leaves the change counter at its initial value
StartedState_NoCount(chord, st) ==
  [ isPlaying |-> TRUE, isPaused |-> FALSE, currentChord |-> chord,
    timeRemaining |-> IF st.gameMode = "speed" THEN FromInt(st.countdownDuration) ELSE DZero,
    chordChangeCount |-> 0,
    isRevealed |-> IF st.gameMode = "speed" THEN FALSE ELSE st.showChordOnKeyboard ]

\* the state handleStart writes, chordUtils.ts 134-141 (st: the settings of
\* the render in which handleStart was called)
StartedState(chord, st) ==
  [ isPlaying |-> TRUE, isPaused |-> FALSE, currentChord |-> chord,
    timeRemaining |-> IF st.gameMode = "speed" THEN FromInt(st.countdownDuration) ELSE DZero,
    chordChangeCount |-> 1,
    isRevealed |-> IF st.gameMode = "speed" THEN FALSE ELSE st.showChordOnKeyboard ]

(***************************************************************************)
(* handleStart, chordUtils.ts 118-142.  The Start button is rendered while *)
(* the game is not playing (351-357).                                      *)
(***************************************************************************)
\* no chord: alert and return (120-127)
StartNoChord ==
  /\ ~gameState.isPlaying
  /\ getNextChord(settings, gameState.currentChord, 0) = NoChord
  /\ calls' = <<"alert">>
  /\ UNCHANGED <<settings, showChordSelector, gameState, starts, sampler, samplers, activeNotes, sounding,
                 plays, releaseTimers, ticks>>

\* playSound off: the state is written in the same task (134-141)
StartSilent ==
  /\ ~gameState.isPlaying
  /\ ~settings.playSound
  /\ \E r \in RandomIndices(settings) :
       LET chord == getNextChord(settings, gameState.currentChord, r)
       IN /\ chord # NoChord
          /\ Render(StartedState(chord, settings), FALSE, <<>>, Len(starts))
  /\ ticks' = 0
  /\ UNCHANGED <<settings, showChordSelector, starts, sampler, samplers, releaseTimers>>

\* playSound on: the call suspends at await preloadSamples() (130-132),
\* inside it at await Tone.start() (soundUtils.ts 148)
StartPreloadWithin(cap) ==
  /\ ~gameState.isPlaying
  /\ settings.playSound
  /\ Len(starts) + Len(plays) + Len(releaseTimers) < cap
  /\ \E r \in RandomIndices(settings) :
       LET chord == getNextChord(settings, gameState.currentChord, r)
       IN /\ chord # NoChord
          /\ starts' = Append(starts, [state |-> StartedState(chord, settings),
                                       pc |-> "start"])
  /\ calls' = <<>>
  /\ UNCHANGED <<settings, showChordSelector, gameState, sampler, samplers, activeNotes, sounding, plays,
                 releaseTimers, ticks>>

StartPreload == StartPreloadWithin(MaxPending)

\* getSampler, soundUtils.ts 19-78: the sampler state after the call
SamplerAfterGet(samp) == IF samp = "none" THEN "loading" ELSE samp

\* variant: getSampler does not look for a load in progress and constructs a
\* sampler on every call until one is loaded
SamplersAfterGet_NoPromiseCheck(samp, n) == IF samp = "loaded" THEN n ELSE n + 1

\* getSampler, soundUtils.ts 19-35: the number of Tone.Sampler instances
\* constructed so far, after the call
SamplersAfterGet(samp, n) == IF samp = "none" THEN n + 1 ELSE n

\* Tone.start() resolved inside preloadSamples: getSampler() is called (149)
StartToneResolved ==
  \E i \in 1..Len(starts) :
    /\ starts[i].pc = "start"
    /\ starts' = [starts EXCEPT ![i].pc = "load"]
    /\ sampler' = SamplerAfterGet(sampler)
    /\ samplers' = SamplersAfterGet(sampler, samplers)
    /\ calls' = <<>>
    /\ UNCHANGED <<settings, showChordSelector, gameState, activeNotes, sounding, plays, releaseTimers, ticks>>

\* Tone.start() rejected inside preloadSamples: the catch logs (150-152) and
\* handleStart goes on to write the state
StartToneRejected ==
  \E i \in 1..Len(starts) :
    /\ starts[i].pc = "start"
    /\ starts' = RemoveAt(starts, i)
    /\ Render(starts[i].state, FALSE, <<>>, Len(starts) - 1)
    /\ ticks' = 0
    /\ UNCHANGED <<settings, showChordSelector, sampler, samplers, releaseTimers>>

\* the sampler is loaded: preloadSamples returns and handleStart writes the
\* state.  The calls waiting for the sampler wait for the same promise
\* (soundUtils.ts 26-28): they resume in the same task, and React commits the
\* writes of one task in one render, in which the last write stands.
AwaitsTone(start) == start.pc # "load"

StartFinish ==
  \E i \in 1..Len(starts) :
    /\ starts[i].pc = "load"
    /\ sampler = "loaded"
    /\ starts' = SelectSeq(starts, AwaitsTone)
    /\ Render(starts[i].state, FALSE, <<>>, Len(SelectSeq(starts, AwaitsTone)))
    /\ ticks' = 0
    /\ UNCHANGED <<settings, showChordSelector, sampler, samplers, releaseTimers>>

\* the same step with cap pending callbacks allowed
StartFinishWithin(cap) ==
  \E i \in 1..Len(starts) :
    /\ starts[i].pc = "load"
    /\ sampler = "loaded"
    /\ starts' = SelectSeq(starts, AwaitsTone)
    /\ RenderWithin(cap, starts[i].state, FALSE, <<>>, Len(SelectSeq(starts, AwaitsTone)))
    /\ ticks' = 0
    /\ UNCHANGED <<settings, showChordSelector, sampler, samplers, releaseTimers>>

\* the sampler's onload callback, soundUtils.ts 70-72
SamplerLoaded ==
  /\ sampler = "loading"
  /\ sampler' = "loaded"
  /\ calls' = <<>>
  /\ UNCHANGED <<settings, showChordSelector, gameState, starts, samplers, activeNotes, sounding, plays,
                 releaseTimers, ticks>>

(***************************************************************************)
(* handlePause, chordUtils.ts 145-153.  The Pause/Resume button is         *)
(* rendered while playing in speed mode (383-397).                         *)
(***************************************************************************)
\* variant: the state update is made before stopAllSounds is called
handlePause_StopAfter ==
  /\ gameState.isPlaying
  /\ settings.gameMode = "speed"
  /\ gameState' = [gameState EXCEPT !.isPaused = ~gameState.isPaused]
  /\ activeNotes' = StoppedActive(sampler, activeNotes)
  /\ sounding' = StoppedSounding(sampler, activeNotes, sounding)
  /\ calls' = <<"setGameState", "stopAllSounds">>
  /\ UNCHANGED <<settings, showChordSelector, starts, sampler, samplers, plays, releaseTimers, ticks>>

\* variant: the Pause button is rendered in beginner mode too
handlePause_AnyMode ==
  /\ gameState.isPlaying
  /\ Render([gameState EXCEPT !.isPaused = ~gameState.isPaused], TRUE, <<"stopAllSounds">>, Len(starts))
  /\ UNCHANGED <<settings, showChordSelector, starts, sampler, samplers, releaseTimers, ticks>>

handlePause ==
  /\ gameState.isPlaying
  /\ settings.gameMode = "speed"
  /\ Render([gameState EXCEPT !.isPaused = ~gameState.isPaused], TRUE, <<"stopAllSounds">>, Len(starts))
  /\ UNCHANGED <<settings, showChordSelector, starts, sampler, samplers, releaseTimers, ticks>>

(***************************************************************************)
(* handleStop, chordUtils.ts 156-168.  The Stop button is rendered while   *)
(* playing, in both modes (376-381, 398-403).                              *)
(***************************************************************************)
\* variant: the stop keeps the chord on display
handleStop_KeepsChord ==
  /\ gameState.isPlaying
  /\ Render([IdleState EXCEPT !.currentChord = gameState.currentChord],
            TRUE, <<"stopAllSounds">>, Len(starts))
  /\ ticks' = 0
  /\ UNCHANGED <<settings, showChordSelector, starts, sampler, samplers, releaseTimers>>

handleStop ==
  /\ gameState.isPlaying
  /\ Render(IdleState, TRUE, <<"stopAllSounds">>, Len(starts))
  /\ ticks' = 0
  /\ UNCHANGED <<settings, showChordSelector, starts, sampler, samplers, releaseTimers>>

(***************************************************************************)
(* handleReveal, chordUtils.ts 171-177.  The Reveal button is rendered     *)
(* while playing in beginner mode with the chord not revealed (358-367).   *)
(***************************************************************************)
\* variant: the Reveal button is rendered while not playing too
handleReveal_AnyPhase ==
  /\ settings.gameMode = "beginner"
  /\ ~gameState.isRevealed
  /\ gameState.chordChangeCount < MaxChanges
  /\ Render([gameState EXCEPT !.isRevealed = TRUE,
                              !.chordChangeCount = gameState.chordChangeCount + 1],
            FALSE, <<>>, Len(starts))
  /\ UNCHANGED <<settings, showChordSelector, starts, sampler, samplers, releaseTimers, ticks>>

handleReveal ==
  /\ gameState.isPlaying
  /\ settings.gameMode = "beginner"
  /\ ~gameState.isRevealed
  /\ gameState.chordChangeCount < MaxChanges
  /\ Render([gameState EXCEPT !.isRevealed = TRUE,
                              !.chordChangeCount = gameState.chordChangeCount + 1],
            FALSE, <<>>, Len(starts))
  /\ UNCHANGED <<settings, showChordSelector, starts, sampler, samplers, releaseTimers, ticks>>

(***************************************************************************)
(* handleNext, chordUtils.ts 180-194.  The Next button is rendered while   *)
(* playing in beginner mode with the chord revealed (368-375).             *)
(***************************************************************************)
\* variant: next() bumps chordChangeCount whatever the reveal setting
NextState_AlwaysBump(gs, st, nextChord) ==
  [gs EXCEPT !.currentChord = nextChord,
             !.isRevealed = st.showChordOnKeyboard,
             !.chordChangeCount = gs.chordChangeCount + 1]

NextState(gs, st, nextChord) ==
  [gs EXCEPT !.currentChord = nextChord,
             !.isRevealed = st.showChordOnKeyboard,
             !.chordChangeCount = IF st.showChordOnKeyboard
                                  THEN gs.chordChangeCount + 1
                                  ELSE gs.chordChangeCount]

handleNext ==
  /\ gameState.isPlaying
  /\ settings.gameMode = "beginner"
  /\ gameState.isRevealed
  /\ \E r \in RandomIndices(settings) :
       LET nextChord == getNextChord(settings, gameState.currentChord, r)
       IN IF nextChord = NoChord
          THEN \* handleStop() (184)
               /\ Render(IdleState, TRUE, <<"stopAllSounds">>, Len(starts))
               /\ ticks' = 0
          ELSE /\ NextState(gameState, settings, nextChord).chordChangeCount <= MaxChanges
               /\ Render(NextState(gameState, settings, nextChord), FALSE, <<>>, Len(starts))
               /\ ticks' = ticks
  /\ UNCHANGED <<settings, showChordSelector, starts, sampler, samplers, releaseTimers>>

(***************************************************************************)
(* The timer effect, chordUtils.ts 204-245: the interval exists while the  *)
(* game is playing, not paused, in speed mode; each tick applies the       *)
(* updater of 211-241 to the current state.                                *)
(***************************************************************************)
\* variant: the effect does not look at isPaused, the interval survives a pause
TimerRunning_IgnoresPause(gs, st) == gs.isPlaying /\ st.gameMode = "speed"

\* variant: the test of the game mode is inverted
TimerRunning_WrongMode(gs, st) == gs.isPlaying /\ ~gs.isPaused /\ st.gameMode # "speed"

TimerRunning(gs, st) == gs.isPlaying /\ ~gs.isPaused /\ st.gameMode = "speed"

\* variant: a repeated chord ends the session
RolloverState_StopOnRepeat(prev, st, nextChord) ==
  IF nextChord = NoChord \/ nextChord = prev.currentChord
  THEN IdleState
  ELSE [prev EXCEPT !.currentChord = nextChord,
                    !.timeRemaining = FromInt(st.countdownDuration),
                    !.chordChangeCount = prev.chordChangeCount + 1,
                    !.isRevealed = FALSE]

\* variant: the rollover does not bump chordChangeCount
RolloverState_NoBump(prev, st, nextChord) ==
  IF nextChord = NoChord
  THEN IdleState
  ELSE [prev EXCEPT !.currentChord = nextChord,
                    !.timeRemaining = FromInt(st.countdownDuration),
                    !.isRevealed = FALSE]

\* the updater's result when the time is up (214-235)
RolloverState(prev, st, nextChord) ==
  IF nextChord = NoChord
  THEN IdleState
  ELSE [prev EXCEPT !.currentChord = nextChord,
                    !.timeRemaining = FromInt(st.countdownDuration),
                    !.chordChangeCount = prev.chordChangeCount + 1,
                    !.isRevealed = FALSE]

\* the updater's result otherwise (237-240)
CountdownState(prev) ==
  [prev EXCEPT !.timeRemaining = DecrementTenth(prev.timeRemaining)]

TickCountdown ==
  /\ TimerRunning(gameState, settings)
  /\ ~TimeIsUp(gameState.timeRemaining)
  /\ Render(CountdownState(gameState), FALSE, <<>>, Len(starts))
  /\ ticks' = ticks + 1
  /\ UNCHANGED <<settings, showChordSelector, starts, sampler, samplers, releaseTimers>>

TickRollover ==
  /\ TimerRunning(gameState, settings)
  /\ TimeIsUp(gameState.timeRemaining)
  /\ \E r \in RandomIndices(settings) :
       LET nextChord == getNextChord(settings, gameState.currentChord, r)
       IN /\ nextChord # NoChord => gameState.chordChangeCount < MaxChanges
          /\ Render(RolloverState(gameState, settings, nextChord), FALSE, <<>>, Len(starts))
          /\ ticks' = IF nextChord = NoChord THEN 0 ELSE ticks + 1
  /\ UNCHANGED <<settings, showChordSelector, starts, sampler, samplers, releaseTimers>>

\* the same step with cap pending callbacks allowed
TickRolloverWithin(cap) ==
  /\ TimerRunning(gameState, settings)
  /\ TimeIsUp(gameState.timeRemaining)
  /\ \E r \in RandomIndices(settings) :
       LET nextChord == getNextChord(settings, gameState.currentChord, r)
       IN /\ nextChord # NoChord => gameState.chordChangeCount < MaxChanges
          /\ RenderWithin(cap, RolloverState(gameState, settings, nextChord), FALSE, <<>>, Len(starts))
          /\ ticks' = IF nextChord = NoChord THEN 0 ELSE ticks + 1
  /\ UNCHANGED <<settings, showChordSelector, starts, sampler, samplers, releaseTimers>>

(***************************************************************************)
(* playChord after its first await, soundUtils.ts 99-139.                  *)
(***************************************************************************)
\* Tone.start() resolved: getSampler() is called (102)
PlayToneResolved ==
  \E i \in 1..Len(plays) :
    /\ plays[i].pc = "start"
    /\ plays' = [plays EXCEPT ![i].pc = "load"]
    /\ sampler' = SamplerAfterGet(sampler)
    /\ samplers' = SamplersAfterGet(sampler, samplers)
    /\ calls' = <<>>
    /\ UNCHANGED <<settings, showChordSelector, gameState, starts, activeNotes, sounding, releaseTimers, ticks>>

\* Tone.start() rejected: the catch logs the error (137-139)
PlayToneRejected ==
  \E i \in 1..Len(plays) :
    /\ plays[i].pc = "start"
    /\ plays' = RemoveAt(plays, i)
    /\ calls' = <<>>
    /\ UNCHANGED <<settings, showChordSelector, gameState, starts, sampler, samplers, activeNotes, sounding,
                   releaseTimers, ticks>>

\* the delay of the release timer of a call of playChord(notes, duration):
\* playChord declares the notes parameter only (93) and schedules the
\* release after a fixed 2000 ms (116-121)
ReleaseDelay(duration) == RELEASE_MS

\* the sampler is there and loaded: the notes are attacked and their
\* release is scheduled (105-121)
PlayAttack ==
  \E i \in 1..Len(plays) :
    /\ plays[i].pc = "load"
    /\ sampler = "loaded"
    /\ plays' = RemoveAt(plays, i)
    /\ activeNotes' = toneNotesOf(plays[i].notes)
    /\ sounding' = sounding \cup Range(toneNotesOf(plays[i].notes))
    /\ releaseTimers' = Append(releaseTimers, ReleaseDelay(plays[i].duration))
    /\ calls' = <<>>
    /\ UNCHANGED <<settings, showChordSelector, gameState, starts, sampler, samplers, ticks>>

\* the release callback, soundUtils.ts 116-121
ReleaseTimerFires ==
  /\ Len(releaseTimers) > 0
  /\ releaseTimers' = Tail(releaseTimers)
  /\ activeNotes' = <<>>
  /\ sounding' = IF Len(activeNotes) > 0 THEN sounding \ Range(activeNotes) ELSE sounding
  /\ calls' = <<>>
  /\ UNCHANGED <<settings, showChordSelector, gameState, starts, sampler, samplers, plays, ticks>>

(***************************************************************************)
(* The session specification: the settings are those the settings panel    *)
(* and the chord selector can produce before a session (the whole catalog, *)
(* an empty selection, a pool of 1 and of 0 chords); they stay while the   *)
(* session runs (the panel is disabled while playing, 302-306).  The       *)
(* difficulty is the default: the panel has no control for it.  The        *)
(* countdown is the slider's minimum; SpecCountdown covers its range.      *)
(* showChordOnKeyboard varies in beginner mode, where the engine reads it. *)
(***************************************************************************)
SessionFilters ==
  { [mode |-> "all",      selectedChords |-> {},          chordTypes |-> ChordTypes],
    [mode |-> "selected", selectedChords |-> {},          chordTypes |-> {"major"}],
    [mode |-> "selected", selectedChords |-> {"C-major"}, chordTypes |-> ChordTypes],
    [mode |-> "selected", selectedChords |-> {"C-major"}, chordTypes |-> {"minor"}] }

SessionModes ==
  { <<gm, sh>> \in GameModes \X BOOLEAN :
      gm = "beginner" \/ sh = DEFAULT_SETTINGS.showChordOnKeyboard }

SessionSettings ==
  { [ gameMode |-> m[1], chordTypes |-> f.chordTypes,
      difficulty |-> DEFAULT_SETTINGS.difficulty,
      countdownDuration |-> MinCountdown, showChordOnKeyboard |-> m[2],
      playSound |-> ps, selectedChords |-> f.selectedChords, mode |-> f.mode ] :
      m \in SessionModes, f \in SessionFilters, ps \in BOOLEAN }

\* the state after the first render: App 100-110, soundUtils.ts 11-13
Mounted ==
  /\ showChordSelector = FALSE
  /\ gameState = IdleState
  /\ starts = <<>>
  /\ sampler = "none"
  /\ samplers = 0
  /\ activeNotes = <<>>
  /\ sounding = {}
  /\ plays = <<>>
  /\ releaseTimers = <<>>
  /\ calls = <<>>
  /\ ticks = 0

Init ==
  /\ settings \in SessionSettings
  /\ Mounted

Next ==
  \/ StartNoChord
  \/ StartSilent
  \/ StartPreload
  \/ StartToneResolved
  \/ StartToneRejected
  \/ StartFinish
  \/ SamplerLoaded
  \/ handlePause
  \/ handleStop
  \/ handleReveal
  \/ handleNext
  \/ TickCountdown
  \/ TickRollover
  \/ PlayToneResolved
  \/ PlayToneRejected
  \/ PlayAttack
  \/ ReleaseTimerFires

Spec == Init /\ [][Next]_vars

(***************************************************************************)
(* The session under the scheduling the runtime guarantees: a continuation *)
(* runs once its promise has resolved (StartFinish, PlayAttack) and a      *)
(* timer callback runs once it is due (the interval ticks, the release     *)
(* timer).  Nothing is assumed of the user, nor of the audio subsystem:    *)
(* Tone.start() may stay pending and the samples may never load.           *)
(***************************************************************************)
Scheduling ==
  /\ WF_vars(StartFinish)
  /\ WF_vars(PlayAttack)
  /\ WF_vars(TickCountdown)
  /\ WF_vars(TickRollover)
  /\ WF_vars(ReleaseTimerFires)

SpecFair == Init /\ [][Next]_vars /\ Scheduling

(***************************************************************************)
(* setSettings(newSettings): the settings cell is replaced and the effects *)
(* run; the sound effect (255-260) plays the current chord when one of its *)
(* dependencies changed and its condition holds.                           *)
(***************************************************************************)
setSettings(newSettings) ==
  /\ settings' = newSettings
  /\ IF SoundEffectFires(gameState, settings, gameState, newSettings)
     THEN /\ Len(starts) + Len(plays) + Len(releaseTimers) < MaxPending
          /\ plays' = Append(plays, [notes |-> ChordById(gameState.currentChord).notes,
                                     duration |-> newSettings.countdownDuration,
                                     pc |-> "start"])
          /\ activeNotes' = StoppedActive(sampler, activeNotes)
          /\ sounding' = StoppedSounding(sampler, activeNotes, sounding)
          /\ calls' = <<"setSettings", "playChord">>
     ELSE /\ plays' = plays
          /\ activeNotes' = activeNotes
          /\ sounding' = sounding
          /\ calls' = <<"setSettings">>
  /\ UNCHANGED <<showChordSelector, gameState, starts, sampler, samplers, releaseTimers, ticks>>

(***************************************************************************)
(* Handlers of the Settings panel, part_003 30-35 and 69-74: each passes a *)
(* copy of the settings with one field replaced to onSettingsChange, which *)
(* is setSettings (chordUtils.ts 304).  The panel is disabled while        *)
(* playing (305).                                                          *)
(***************************************************************************)
handleGameModeChange ==
  /\ ~gameState.isPlaying
  /\ \E gameMode \in GameModes : setSettings([settings EXCEPT !.gameMode = gameMode])

handleModeChange ==
  /\ ~gameState.isPlaying
  /\ \E mode \in {"all", "selected"} : setSettings([settings EXCEPT !.mode = mode])

\* the values the countdown slider is moved to (part_003 215-219: 1..10 in
\* steps of 1), up to MaxSlider
SliderValues ==
  MinCountdown..(IF MaxSlider < MaxCountdown THEN MaxSlider ELSE MaxCountdown)

\* part_003 48-53; the slider is rendered in speed mode only (206-224)
handleDurationChange ==
  /\ ~gameState.isPlaying
  /\ settings.gameMode = "speed"
  /\ \E duration \in SliderValues :
       setSettings([settings EXCEPT !.countdownDuration = duration])

\* part_003 55-60
handleShowChordToggle ==
  /\ ~gameState.isPlaying
  /\ setSettings([settings EXCEPT !.showChordOnKeyboard = ~settings.showChordOnKeyboard])

\* part_003 62-67
handlePlaySoundToggle ==
  /\ ~gameState.isPlaying
  /\ setSettings([settings EXCEPT !.playSound = ~settings.playSound])

\* the showHighlight property of the keyboard, chordUtils.ts 340-345
showHighlight(gs, st) ==
  gs.isPlaying /\ (IF st.gameMode = "speed" THEN st.showChordOnKeyboard ELSE gs.isRevealed)

(***************************************************************************)
(* The chord selector modal.  Its button is shown with mode selected and   *)
(* is disabled while playing (chordUtils.ts 309-318); the modal stays      *)
(* until onClose (412-421); its handlers (ChordSelector.tsx 144-158) pass  *)
(* the new selection to setSettings (415-417).                             *)
(***************************************************************************)
OpenChordSelector ==
  /\ ~gameState.isPlaying
  /\ settings.mode = "selected"
  /\ ~showChordSelector
  /\ showChordSelector' = TRUE
  /\ calls' = <<>>
  /\ UNCHANGED <<settings, gameState, starts, sampler, samplers, activeNotes, sounding,
                 plays, releaseTimers, ticks>>

CloseChordSelector ==
  /\ showChordSelector
  /\ showChordSelector' = FALSE
  /\ calls' = <<>>
  /\ UNCHANGED <<settings, gameState, starts, sampler, samplers, activeNotes, sounding,
                 plays, releaseTimers, ticks>>

toggleChord ==
  /\ showChordSelector
  /\ \E chordId \in ChordIds :
       LET chords == IF chordId \in settings.selectedChords
                     THEN settings.selectedChords \ {chordId}
                     ELSE settings.selectedChords \cup {chordId}
       IN setSettings([settings EXCEPT !.selectedChords = chords])

selectAll ==
  /\ showChordSelector
  /\ setSettings([settings EXCEPT !.selectedChords = ChordIds])

deselectAll ==
  /\ showChordSelector
  /\ setSettings([settings EXCEPT !.selectedChords = {}])

(***************************************************************************)
(* The configuration specification: the session with the settings panel    *)
(* (game mode and selection mode) and the chord selector.  It starts from  *)
(* the default settings at the slider's minimum countdown, with both chord *)
(* types or with the minor chords only.  The modal is an overlay over the  *)
(* whole page (ChordSelector.tsx 186): while it is open the user operates  *)
(* its controls only; callbacks run in any case.                           *)
(***************************************************************************)
ConfigSettings ==
  { [DEFAULT_SETTINGS EXCEPT !.countdownDuration = MinCountdown, !.chordTypes = ty] :
      ty \in {ChordTypes, {"minor"}} }

InitConfig ==
  /\ settings \in ConfigSettings
  /\ Mounted

NextConfig ==
  \/ ~showChordSelector /\ StartNoChord
  \/ ~showChordSelector /\ StartPreload
  \/ ~showChordSelector /\ handleStop
  \/ ~showChordSelector /\ handleReveal
  \/ ~showChordSelector /\ handleNext
  \/ ~showChordSelector /\ handleGameModeChange
  \/ ~showChordSelector /\ handleModeChange
  \/ ~showChordSelector /\ OpenChordSelector
  \/ CloseChordSelector
  \/ toggleChord
  \/ selectAll
  \/ deselectAll
  \/ StartToneRejected
  \/ PlayToneRejected
  \/ TickCountdown
  \/ TickRollover

SpecConfig == InitConfig /\ [][NextConfig]_vars

(***************************************************************************)
(* The panel specification: the session with the controls of the settings  *)
(* panel that the engine reads (game mode, countdown, reveal setting,      *)
(* sound), from the default settings at the slider's minimum countdown     *)
(* with the minor chords.  The panel is enabled while not playing, also    *)
(* while a start waits for the samples.                                    *)
(***************************************************************************)
PanelSettings ==
  { [DEFAULT_SETTINGS EXCEPT !.countdownDuration = MinCountdown, !.chordTypes = {"minor"}] }

InitPanel ==
  /\ settings \in PanelSettings
  /\ Mounted

NextPanel ==
  \/ StartSilent
  \/ StartPreload
  \/ StartToneRejected
  \/ PlayToneRejected
  \/ handlePause
  \/ handleStop
  \/ handleReveal
  \/ handleNext
  \/ TickCountdown
  \/ TickRollover
  \/ handleGameModeChange
  \/ handleDurationChange
  \/ handleShowChordToggle
  \/ handlePlaySoundToggle

SpecPanel == InitPanel /\ [][NextPanel]_vars

(***************************************************************************)
(* The sound specification: the calls the session makes on the sound       *)
(* module, preloadSamples by handleStart and playChord by the sound        *)
(* effect, where Start is pressed again while earlier calls still wait for *)
(* the audio context or for the samples (the Start button stays while not  *)
(* playing, 351-357).  Speed mode, sound on, the minor chords; the         *)
(* rollovers of the countdown make the later calls of playChord.           *)
(***************************************************************************)
InitSound ==
  /\ settings \in PanelSettings
  /\ Mounted

NextSound ==
  \/ StartPreloadWithin(MaxCalls)
  \/ StartToneResolved
  \/ StartToneRejected
  \/ StartFinish
  \/ SamplerLoaded
  \/ handleStop
  \/ TickCountdown
  \/ TickRollover
  \/ PlayToneResolved
  \/ PlayToneRejected
  \/ PlayAttack
  \/ ReleaseTimerFires

SpecSound == InitSound /\ [][NextSound]_vars

(***************************************************************************)
(* The release specification: speed mode with the sound on at the slider's *)
(* minimum countdown, over the whole catalog.  A release timer is due      *)
(* 2000 ms after its attack (soundUtils.ts 116-121); with a countdown of   *)
(* 1 s the next chord is played, and a stopped session can be started      *)
(* again, while the timer of the chord before is still pending.            *)
(***************************************************************************)
ReleaseSettings ==
  { [DEFAULT_SETTINGS EXCEPT !.countdownDuration = MinCountdown] }

InitRelease ==
  /\ settings \in ReleaseSettings
  /\ Mounted

NextRelease ==
  \/ StartPreloadWithin(MaxCalls)
  \/ StartToneResolved
  \/ StartFinishWithin(MaxCalls)
  \/ SamplerLoaded
  \/ handleStop
  \/ TickCountdown
  \/ TickRolloverWithin(MaxCalls)
  \/ PlayToneResolved
  \/ PlayAttack
  \/ ReleaseTimerFires

SpecRelease == InitRelease /\ [][NextRelease]_vars

(***************************************************************************)
(* The progress specification: the speed-mode session with the sound off   *)
(* (the timer effect, 204-245, does not read playSound), over the pools of *)
(* the session specification at the slider's minimum countdown, with the   *)
(* user's Start, Pause/Resume and Stop.  The interval callback runs every  *)
(* 100 ms while the interval exists: weak fairness on the tick.  Nothing   *)
(* is assumed of the user.                                                 *)
(***************************************************************************)
ProgressSettings ==
  { st \in SessionSettings : st.gameMode = "speed" /\ ~st.playSound }

InitProgress ==
  /\ settings \in ProgressSettings
  /\ Mounted

Tick == TickCountdown \/ TickRollover

NextProgress ==
  \/ StartNoChord
  \/ StartSilent
  \/ handlePause
  \/ handleStop
  \/ TickCountdown
  \/ TickRollover

SpecProgress == InitProgress /\ [][NextProgress]_vars /\ WF_vars(Tick)

(***************************************************************************)
(* The selection specification: getAvailableChords and getRandomChord      *)
(* over every combination of the selection mode, the selected chords, the  *)
(* chord types and the difficulty, applied by the self-paced session       *)
(* (beginner mode, auto-reveal, sound off).                                *)
(***************************************************************************)
PickSettings ==
  { [ gameMode |-> "beginner", chordTypes |-> ty, difficulty |-> df,
      countdownDuration |-> MinCountdown, showChordOnKeyboard |-> TRUE,
      playSound |-> FALSE, selectedChords |-> sel, mode |-> md ] :
      ty \in SUBSET ChordTypes, df \in Difficulties \cup {"all"},
      sel \in SUBSET ChordIds, md \in {"all", "selected"} }

InitPick ==
  /\ settings \in PickSettings
  /\ Mounted

NextPick ==
  \/ StartNoChord
  \/ StartSilent
  \/ handleNext
  \/ handleStop

SpecPick == InitPick /\ [][NextPick]_vars

(***************************************************************************)
(* The countdown specification: speed mode over the whole range of the     *)
(* countdown slider, with the start and the interval callbacks as the only *)
(* inputs.                                                                 *)
(***************************************************************************)
CountdownSettings ==
  { [ DEFAULT_SETTINGS EXCEPT !.countdownDuration = d, !.playSound = FALSE ] :
      d \in MinCountdown..MaxCountdown }

InitCountdown ==
  /\ settings \in CountdownSettings
  /\ Mounted

NextCountdown ==
  \/ StartSilent
  \/ TickCountdown
  \/ TickRollover

SpecCountdown == InitCountdown /\ [][NextCountdown]_vars

(***************************************************************************)
(* Properties.                                                             *)
(***************************************************************************)
PoolSize(st) == Len(getAvailableChords(st))

SinglePool(st) == PoolSize(st) = 1

OnlyChord(st) == getAvailableChords(st)[1].id

\* a call of handleStart, whichever way it goes
StartCalled == StartNoChord \/ StartSilent \/ StartPreload

\* handleStart writes the session state
StartWrites == StartSilent \/ StartToneRejected \/ StartFinish

PlayRequests(cs) == Cardinality({ i \in 1..Len(cs) : cs[i] = "playChord" })

\* C1: with a pool of at least 2 chords, no automatic advance (tick
\* rollover) and no next() leaves currentChord with the id it had before.
C1_NoImmediateRepeat ==
  [][ ( /\ TickRollover \/ handleNext
        /\ PoolSize(settings) >= 2
        /\ gameState'.isPlaying )
      => gameState'.currentChord # gameState.currentChord ]_vars

\* C2: with a pool of exactly one chord, getRandomChord returns that chord
\* on every call, also when the previous chord is that chord, and a tick
\* rollover of a speed session keeps the session running on that chord.
C2_SingleChordPool ==
  [][ SinglePool(settings) =>
        /\ \A prev \in {NoChord, OnlyChord(settings)} :
             \A r \in RandomIndices(settings) :
               getNextChord(settings, prev, r) = OnlyChord(settings)
        /\ TickRollover =>
             /\ gameState.currentChord = OnlyChord(settings)
             /\ gameState'.currentChord = OnlyChord(settings)
             /\ gameState'.isPlaying
             /\ ~gameState'.isPaused ]_vars

C2_Witness ==
  /\ SinglePool(settings)
  /\ settings.gameMode = "speed"
  /\ gameState.isPlaying
  /\ gameState.chordChangeCount >= 2
  /\ gameState.currentChord = OnlyChord(settings)

\* C3: with an empty pool getRandomChord returns no chord, and a call of
\* handleStart issues the notice, leaves the session state as it was (the
\* idle state), suspends nothing and requests no audio.
C3_EmptyPoolStart ==
  [][ (StartCalled /\ PoolSize(settings) = 0) =>
        /\ \A r \in RandomIndices(settings) :
             getNextChord(settings, gameState.currentChord, r) = NoChord
        /\ calls' = <<"alert">>
        /\ gameState = IdleState
        /\ gameState' = gameState
        /\ starts' = starts
        /\ plays' = plays
        /\ sounding' = sounding ]_vars

C3_Witness ==
  /\ PoolSize(settings) = 0
  /\ calls = <<"alert">>
  /\ gameState = IdleState

EmptySelection(st) == st.mode = "selected" /\ st.selectedChords = {}

\* C4: with mode selected and no chord selected, no chord is available,
\* whatever the type and difficulty filters, so a call of handleStart issues
\* the notice and the session stays idle.
C4_EmptySelectionIsEmpty ==
  [][ (StartCalled /\ EmptySelection(settings)) =>
        /\ getAvailableChords(settings) = <<>>
        /\ calls' = <<"alert">>
        /\ gameState' = IdleState ]_vars

\* C5: chordChangeCount becomes its idle value plus 1 when handleStart
\* writes the state (an increase by exactly 1 from the idle session), and
\* increases by exactly 1 on every tick rollover that loads a chord, on
\* every next() with auto-reveal, and on every reveal().
C5_SequenceBumps ==
  [][ /\ StartWrites =>
           /\ gameState'.chordChangeCount = IdleState.chordChangeCount + 1
           /\ ~gameState.isPlaying =>
                gameState'.chordChangeCount = gameState.chordChangeCount + 1
      /\ (TickRollover /\ gameState'.isPlaying) =>
           gameState'.chordChangeCount = gameState.chordChangeCount + 1
      /\ (handleNext /\ gameState'.isPlaying /\ settings.showChordOnKeyboard) =>
           gameState'.chordChangeCount = gameState.chordChangeCount + 1
      /\ handleReveal =>
           gameState'.chordChangeCount = gameState.chordChangeCount + 1 ]_vars

C5_Witness ==
  /\ settings.gameMode = "speed"
  /\ gameState.isPlaying
  /\ gameState.chordChangeCount = 2
  /\ ticks > 0
  /\ gameState.timeRemaining = FromInt(settings.countdownDuration)

\* C6: pause() and pause() again change only isPaused: chordChangeCount,
\* currentChord, timeRemaining and isRevealed stay, and the step issues no
\* play request and starts no note.
C6_PauseResumeSilent ==
  [][ handlePause =>
        /\ gameState' = [gameState EXCEPT !.isPaused = ~gameState.isPaused]
        /\ PlayRequests(calls') = 0
        /\ plays' = plays
        /\ sounding' \subseteq sounding ]_vars

\* a session resumed with sound on and the sampler loaded
C6_Witness ==
  /\ settings.playSound
  /\ sampler = "loaded"
  /\ gameState.isPlaying
  /\ ~gameState.isPaused
  /\ calls = <<"stopAllSounds", "setGameState">>
  /\ ticks > 0

\* C7: in speed mode every stop() and every pause() calls stopAllSounds
\* before the state update, never after it, and the notes stopAllSounds
\* tracks are released by the time the new phase shows.
C7_StopAllBeforePhaseChange ==
  [][ ((handlePause \/ handleStop) /\ settings.gameMode = "speed") =>
        /\ Len(calls') >= 2
        /\ calls'[1] = "stopAllSounds"
        /\ calls'[2] = "setGameState"
        /\ \A i \in 2..Len(calls') : calls'[i] # "stopAllSounds"
        /\ sampler # "none" =>
             /\ activeNotes' = <<>>
             /\ sounding' \cap Range(activeNotes) = {} ]_vars

\* a pause that silenced a sounding chord whose release is still scheduled
C7_Witness ==
  /\ settings.gameMode = "speed"
  /\ gameState.isPaused
  /\ calls = <<"stopAllSounds", "setGameState">>
  /\ sounding = {}
  /\ Len(releaseTimers) > 0

\* C8: no note starts sounding in a step that ends in phase Idle or Paused.
C8_NoSoundStartsIdleOrPaused ==
  [][ (~gameState'.isPlaying \/ gameState'.isPaused) =>
        sounding' \subseteq sounding ]_vars

\* C9: with sound on and a pool of exactly one chord in speed mode, every
\* tick rollover bumps chordChangeCount and issues exactly one play request,
\* for that chord, although the chord is the one it was.
C9_SingleChordCue ==
  [][ (TickRollover /\ SinglePool(settings) /\ settings.playSound) =>
        /\ gameState'.currentChord = gameState.currentChord
        /\ gameState'.chordChangeCount = gameState.chordChangeCount + 1
        /\ PlayRequests(calls') = 1
        /\ Len(plays') = Len(plays) + 1
        /\ plays'[Len(plays')].notes = ChordById(OnlyChord(settings)).notes
        /\ plays'[Len(plays')].pc = "start" ]_vars

C9_Witness ==
  /\ SinglePool(settings)
  /\ settings.playSound
  /\ settings.gameMode = "speed"
  /\ gameState.chordChangeCount = 2
  /\ calls = <<"setGameState", "playChord">>
  /\ Len(plays) >= 1
  /\ plays[Len(plays)].notes = ChordById(OnlyChord(settings)).notes

\* C10: in speed mode with countdownDuration D, a start followed by fewer
\* than 10*D ticks has made no automatic advance, and a start followed by
\* exactly 10*D ticks has made exactly one: chordChangeCount is 1 more than
\* right after the start.
C10_CountdownPeriod ==
  (gameState.isPlaying /\ settings.gameMode = "speed") =>
    /\ ticks < 10 * settings.countdownDuration =>
         gameState.chordChangeCount = StartedState(NoChord, settings).chordChangeCount
    /\ ticks = 10 * settings.countdownDuration =>
         gameState.chordChangeCount = StartedState(NoChord, settings).chordChangeCount + 1

\* C11: every stop(), from Running or Paused and in either game mode, leaves
\* the session not playing, not paused, with no chord, timeRemaining 0, not
\* revealed and chordChangeCount 0, whatever the state it was called in.
C11_StopIsFullReset ==
  [][ handleStop =>
        /\ gameState.isPlaying
        /\ gameState' = [ isPlaying |-> FALSE, isPaused |-> FALSE,
                          currentChord |-> NoChord, timeRemaining |-> DZero,
                          chordChangeCount |-> 0, isRevealed |-> FALSE ] ]_vars

\* a session stopped after a chord was attacked
C11_Witness ==
  /\ ~gameState.isPlaying
  /\ gameState.currentChord = NoChord
  /\ gameState.chordChangeCount = 0
  /\ calls = <<"stopAllSounds", "setGameState">>
  /\ Len(releaseTimers) > 0

\* C13: a call of handleStart that found a chord eventually brings the
\* session to playing, whatever the audio subsystem does, also when it never
\* finishes loading.
C13_StartReachesRunning ==
  (Len(starts) > 0) ~> gameState.isPlaying

\* C14: the release timer that playChord schedules when it attacks the notes
\* of a request made with countdownDuration D is due D seconds later.
C14_ReleaseAfterCountdown ==
  [][ PlayAttack =>
        \E i \in 1..Len(plays) :
          /\ plays[i].pc = "load"
          /\ plays' = RemoveAt(plays, i)
          /\ releaseTimers'[Len(releaseTimers')] = 1000 * plays[i].duration ]_vars

Unfiltered(st) ==
  st.mode = "all" /\ st.chordTypes = {"major", "minor"} /\ st.difficulty = "all"

\* C15: with mode all, both chord types and difficulty all,
\* getAvailableChords returns the whole catalog, each chord exactly once.
C15_UnfilteredIsCatalog ==
  Unfiltered(settings) =>
    LET a == getAvailableChords(settings)
    IN /\ a = CHORDS
       /\ \A id \in ChordIds : Cardinality({ i \in 1..Len(a) : a[i].id = id }) = 1

\* a session over the unfiltered pool showing the last chord of the catalog
C15_Witness ==
  /\ Unfiltered(settings)
  /\ gameState.isPlaying
  /\ gameState.currentChord = CHORDS[Len(CHORDS)].id

\* the filter of the available chords as C17 states it
StatedFilter(st, c) ==
  /\ st.mode = "all" \/ c.id \in st.selectedChords
  /\ st.chordTypes = {} \/ c.type \in st.chordTypes
  /\ st.difficulty = "all" \/ c.difficulty = st.difficulty

\* C17: for every settings value getAvailableChords returns exactly the
\* catalog chords c with (mode all or c selected) and (no chord type chosen
\* or c's type chosen) and (difficulty all or c's difficulty).
C17_FilterSemantics ==
  LET a == getAvailableChords(settings)
  IN /\ \A i \in 1..Len(a) : StatedFilter(settings, a[i])
     /\ \A j \in 1..Len(CHORDS) :
          StatedFilter(settings, CHORDS[j]) => \E i \in 1..Len(a) : a[i] = CHORDS[j]

\* C18: handleStart's state update issues a play request only with sound on
\* and in speed mode or in beginner mode with auto-reveal; in beginner mode
\* with manual reveal it issues none while the chord is not revealed.
C18_StartAudioGated ==
  [][ StartWrites =>
        /\ PlayRequests(calls') > 0 =>
             /\ settings.playSound
             /\ \/ settings.gameMode = "speed"
                \/ settings.gameMode = "beginner" /\ settings.showChordOnKeyboard
        /\ ( /\ settings.gameMode = "beginner"
             /\ ~settings.showChordOnKeyboard
             /\ ~gameState'.isRevealed ) => PlayRequests(calls') = 0 ]_vars

\* C19: a next() that finds a chord shows a chord of the pool with
\* isRevealed = showChordOnKeyboard; with manual reveal it leaves
\* chordChangeCount as it was and requests no audio; reveal() sets isRevealed
\* and bumps chordChangeCount by 1, which with sound on requests the chord.
C19_BeginnerNext ==
  [][ /\ (handleNext /\ gameState'.isPlaying) =>
           /\ \E r \in RandomIndices(settings) :
                gameState'.currentChord = getNextChord(settings, gameState.currentChord, r)
           /\ gameState'.isRevealed = settings.showChordOnKeyboard
           /\ ~settings.showChordOnKeyboard =>
                /\ gameState'.chordChangeCount = gameState.chordChangeCount
                /\ PlayRequests(calls') = 0
                /\ plays' = plays
      /\ handleReveal =>
           /\ gameState'.isRevealed
           /\ gameState'.currentChord = gameState.currentChord
           /\ gameState'.chordChangeCount = gameState.chordChangeCount + 1
           /\ PlayRequests(calls') = (IF settings.playSound THEN 1 ELSE 0) ]_vars

\* manual reveal with sound on: the reveal() that follows a next(), itself
\* after a first reveal(), has requested the chord
C19_Witness ==
  /\ settings.gameMode = "beginner"
  /\ ~settings.showChordOnKeyboard
  /\ settings.playSound
  /\ gameState.isPlaying
  /\ gameState.isRevealed
  /\ gameState.chordChangeCount = 3
  /\ calls = <<"setGameState", "playChord">>

\* C12: every time getNextChord returns no chord, on a start, on a next() and
\* on a tick rollover, the notice is issued and the session is idle.
C12_ExhaustionIsNoticed ==
  [][ ((StartCalled \/ handleNext \/ TickRollover) /\ PoolSize(settings) = 0) =>
        /\ "alert" \in Range(calls')
        /\ ~gameState'.isPlaying ]_vars

\* an update of the settings, by the panel or by the chord selector
updateSettings ==
  \/ handleGameModeChange
  \/ handleModeChange
  \/ toggleChord
  \/ selectAll
  \/ deselectAll

\* C16: an update of the settings with values equal to the current ones
\* leaves the session state as it is and issues no audio request, in every
\* phase.
C16_SameSettingsNoChange ==
  [][ (updateSettings /\ settings' = settings) =>
        /\ gameState' = gameState
        /\ PlayRequests(calls') = 0
        /\ plays' = plays
        /\ sounding' = sounding
        /\ activeNotes' = activeNotes ]_vars

\* a running session with sound on, the chord selector open, after an
\* update that left every chord selected
C16_Witness ==
  /\ gameState.isPlaying
  /\ settings.playSound
  /\ showChordSelector
  /\ settings.selectedChords = ChordIds
  /\ calls = <<"setSettings">>

\* C20: a tick rollover that finds no next chord ends the session as stop()
\* does: stopAllSounds is called and the state is reset to the idle
\* defaults.
C20_TickExhaustionStops ==
  [][ (TickRollover /\ PoolSize(settings) = 0) =>
        /\ calls' = <<"stopAllSounds", "setGameState">>
        /\ gameState' = [ isPlaying |-> FALSE, isPaused |-> FALSE,
                          currentChord |-> NoChord, timeRemaining |-> DZero,
                          chordChangeCount |-> 0, isRevealed |-> FALSE ] ]_vars

\* C22: timeRemaining is never below 0; a tick whose decrement would bring
\* it to 0 or below sets it, in the same tick, to countdownDuration when a
\* next chord exists; a running speed session never shows a value <= 0.
C22_TimerBounds ==
  /\ [](DLeq(DZero, gameState.timeRemaining))
  /\ []((gameState.isPlaying /\ settings.gameMode = "speed") =>
          DLess(DZero, gameState.timeRemaining))
  /\ [][ /\ (TickRollover /\ gameState'.isPlaying) =>
              gameState'.timeRemaining = FromInt(settings.countdownDuration)
         /\ TickCountdown => DLess(DZero, gameState'.timeRemaining) ]_vars

\* C23: a tick happens only while playing, not paused, in speed mode;
\* timeRemaining stays as it is while the session stays paused, and on the
\* pause() that resumes; it is 0 throughout a beginner session.
C23_TimerOnlyRunningSpeed ==
  [][ /\ (TickCountdown \/ TickRollover) =>
           (gameState.isPlaying /\ ~gameState.isPaused /\ settings.gameMode = "speed")
      /\ (gameState.isPaused /\ gameState'.isPaused) =>
           gameState'.timeRemaining = gameState.timeRemaining
      /\ handlePause => gameState'.timeRemaining = gameState.timeRemaining
      /\ (gameState'.isPlaying /\ settings'.gameMode = "beginner") =>
           gameState'.timeRemaining = DZero ]_vars

C25_SoleAudioTrigger ==
  [][ /\ PlayRequests(calls') <= 1
      /\ Len(plays') <= Len(plays) + 1
      /\ (PlayRequests(calls') > 0 \/ Len(plays') > Len(plays)) =>
           gameState'.chordChangeCount # gameState.chordChangeCount
      /\ (handlePause \/ TickCountdown \/ handlePlaySoundToggle \/ handleDurationChange) =>
           (PlayRequests(calls') = 0 /\ plays' = plays) ]_vars

\* a session started after the slider was moved, whose rollover requested
\* the chord
C25_Witness ==
  /\ settings.playSound
  /\ settings.countdownDuration # MinCountdown
  /\ gameState.isPlaying
  /\ gameState.chordChangeCount = 2
  /\ calls = <<"setGameState", "playChord">>
  /\ Len(plays) > 0

\* C26: every play request carries the notes of the currentChord of the
\* state in which the change of chordChangeCount shows, and that state is
\* playing, not paused, with playSound on.
C26_NoTornSnapshot ==
  [][ (PlayRequests(calls') > 0 \/ Len(plays') > Len(plays)) =>
        /\ gameState'.currentChord # NoChord
        /\ plays'[Len(plays')].notes = ChordById(gameState'.currentChord).notes
        /\ plays'[Len(plays')].pc = "start"
        /\ gameState'.isPlaying
        /\ ~gameState'.isPaused
        /\ settings'.playSound ]_vars

\* the request of a rollover that changed the chord
C26_Witness ==
  /\ gameState.isPlaying
  /\ gameState.chordChangeCount = 2
  /\ calls = <<"setGameState", "playChord">>
  /\ ticks > 0
  /\ Len(plays) > 0
  /\ PoolSize(settings) >= 2
  /\ plays[Len(plays)].notes = ChordById(gameState.currentChord).notes

\* the calls of preloadSamples and playChord that wait for the sampler
WaitingForSampler ==
  Cardinality({ i \in 1..Len(starts) : starts[i].pc = "load" })
    + Cardinality({ i \in 1..Len(plays) : plays[i].pc = "load" })

\* C27: whatever calls of preloadSamples and playChord were made, also
\* calls that overlap while the samples load, at most one sampler has been
\* constructed: it is the one every caller gets.
C27_OneSampler ==
  /\ samplers <= 1
  /\ (samplers = 0) <=> (sampler = "none")
  /\ WaitingForSampler > 0 => samplers = 1

\* two calls wait for the same load
C27_Witness ==
  /\ sampler = "loading"
  /\ samplers = 1
  /\ WaitingForSampler >= 2

\* C28: in every state with gameMode beginner, isPaused is false.
C28_BeginnerNeverPaused ==
  settings.gameMode = "beginner" => ~gameState.isPaused

\* a beginner session whose start was pressed in speed mode
C28_Witness ==
  /\ settings.gameMode = "beginner"
  /\ gameState.isPlaying
  /\ ~gameState.isPaused
  /\ gameState.timeRemaining # DZero

\* C29: while the session is idle, reveal(), next(), pause() and stop()
\* cannot be invoked: the session state stays the idle state (not playing,
\* no chord, not revealed, chordChangeCount 0) and no audio is requested.
C29_IllegalCallsNoOps ==
  ~gameState.isPlaying =>
    /\ gameState = IdleState
    /\ ~ENABLED handleReveal
    /\ ~ENABLED handleNext
    /\ ~ENABLED handlePause
    /\ ~ENABLED handleStop

\* an idle beginner session, stopped while a request for audio was pending
C29_Witness ==
  /\ ~gameState.isPlaying
  /\ settings.gameMode = "beginner"
  /\ calls = <<"stopAllSounds", "setGameState">>
  /\ Len(plays) > 0

\* a chord is loaded: by a start's write or by a next() that found a chord
ChordLoaded == StartWrites \/ (handleNext /\ gameState'.isPlaying)

\* C30: the keyboard highlight flag holds exactly when the session is playing
\* and (speed mode with showChordOnKeyboard, or beginner mode with
\* isRevealed); it is never set while idle; in beginner mode with manual
\* reveal it is false from each chord load until reveal().
C30_HighlightFlag ==
  /\ [](showHighlight(gameState, settings) <=>
          /\ gameState.isPlaying
          /\ \/ settings.gameMode = "speed" /\ settings.showChordOnKeyboard
             \/ settings.gameMode = "beginner" /\ gameState.isRevealed)
  /\ [](~gameState.isPlaying => ~showHighlight(gameState, settings))
  /\ [][ (settings'.gameMode = "beginner" /\ ~settings'.showChordOnKeyboard) =>
           /\ ChordLoaded => ~showHighlight(gameState', settings')
           /\ (~showHighlight(gameState, settings) /\ showHighlight(gameState', settings')) =>
                handleReveal ]_vars

(***************************************************************************)
(* C31: a release timer never cuts a later chord.  The timers have the     *)
(* same delay and run in the order they were scheduled; while a later      *)
(* timer is pending, a later call of playChord has attacked its notes      *)
(* since the first timer was scheduled, so the chord of the first timer is *)
(* superseded: the property says that the first timer then releases        *)
(* nothing, it leaves the sounding notes and activeNotes as they are.      *)
(***************************************************************************)
C31_TimerReleasesOwnChord ==
  [][ ReleaseTimerFires /\ Len(releaseTimers) > 1
        => sounding' = sounding /\ activeNotes' = activeNotes ]_vars

(***************************************************************************)
(* C32: the session state is consistent in every reachable state:          *)
(* isPlaying holds iff there is a current chord iff chordChangeCount >= 1; *)
(* isPaused implies isPlaying; while not playing timeRemaining is 0 and    *)
(* isRevealed is false.                                                    *)
(***************************************************************************)
C32_SessionConsistent ==
  /\ gameState.isPlaying <=> gameState.currentChord # NoChord
  /\ gameState.isPlaying <=> gameState.chordChangeCount >= 1
  /\ gameState.isPaused => gameState.isPlaying
  /\ ~gameState.isPlaying =>
       gameState.timeRemaining = DZero /\ ~gameState.isRevealed

\* a session paused after a rollover of the countdown
C32_Witness ==
  /\ gameState.isPlaying
  /\ gameState.isPaused
  /\ gameState.chordChangeCount > 1
  /\ gameState.currentChord # NoChord

(***************************************************************************)
(* C33: a re-entrant start is safe.  A start that writes the session state *)
(* while the session is already playing was accepted while an earlier      *)
(* start was in flight.  Once the last start in flight has written, the    *)
(* chord whose audio was requested last is the chord shown: while requests *)
(* of playChord are pending the last of them is the last one made, and it  *)
(* carries the notes of currentChord.  (The start writes chordChangeCount  *)
(* 1 in every case, StartedState.)                                         *)
(***************************************************************************)
C33_ReentrantStartSafe ==
  [][ ( /\ StartFinishWithin(MaxCalls)
        /\ gameState.isPlaying
        /\ starts' = <<>>
        /\ plays' # <<>> )
        => /\ plays'[Len(plays')].notes = ChordById(gameState'.currentChord).notes
           /\ gameState'.chordChangeCount = 1 ]_vars

(***************************************************************************)
(* C34: progress in speed mode.  From a running speed-mode session over a  *)
(* non-empty pool with chordChangeCount = n, under weak fairness on the    *)
(* tick, chordChangeCount comes to exceed n unless the user pauses or      *)
(* stops; for every n below the cap of the counter, so a chord advance     *)
(* happens again and again.                                                *)
(***************************************************************************)
C34_SpeedProgress ==
  \A n \in 1..(MaxChanges - 1) :
    ( /\ gameState.isPlaying
      /\ ~gameState.isPaused
      /\ settings.gameMode = "speed"
      /\ PoolSize(settings) > 0
      /\ gameState.chordChangeCount = n )
      ~> ( \/ gameState.chordChangeCount > n
           \/ gameState.isPaused
           \/ ~gameState.isPlaying )

\* the counter has advanced up to the cap with the session never paused or
\* written again: every tick since the start is counted
C34_Witness ==
  /\ gameState.isPlaying
  /\ ~gameState.isPaused
  /\ settings.gameMode = "speed"
  /\ gameState.chordChangeCount = MaxChanges
  /\ ticks >= 10 * settings.countdownDuration * (MaxChanges - 1)

(***************************************************************************)
(* C35: reveal and next alternate in beginner mode.  Reveal is rendered    *)
(* while the chord is not revealed and Next while it is (358-375).  With   *)
(* auto-reveal on, the chord of a playing session is always revealed, so   *)
(* Reveal is never offered.  With manual reveal, a chord is loaded         *)
(* unrevealed and only reveal() makes it revealed, keeping the chord: so   *)
(* Next, which needs the chord revealed, comes after exactly one reveal.   *)
(***************************************************************************)
RevealOffered(gs, st) == gs.isPlaying /\ st.gameMode = "beginner" /\ ~gs.isRevealed

NextOffered(gs, st) == gs.isPlaying /\ st.gameMode = "beginner" /\ gs.isRevealed

C35_RevealNextAlternate ==
  /\ [](settings.gameMode = "beginner" /\ settings.showChordOnKeyboard
          => ~RevealOffered(gameState, settings))
  /\ [][ ( /\ settings'.gameMode = "beginner"
           /\ ~settings'.showChordOnKeyboard
           /\ gameState'.isPlaying )
         => /\ ChordLoaded => RevealOffered(gameState', settings')
            /\ (gameState'.isRevealed /\ ~gameState.isRevealed)
                 => /\ handleReveal
                    /\ gameState'.currentChord = gameState.currentChord
                    /\ NextOffered(gameState', settings') ]_vars

(***************************************************************************)
(* C36: no exhaustion in mid-session with fixed settings.  While the       *)
(* session plays the pool of its settings is not empty, no tick rollover   *)
(* and no next() finds the pool empty (each leaves the session playing,    *)
(* with a chord), and the session stops playing through handleStop only.   *)
(***************************************************************************)
C36_NoMidSessionExhaustion ==
  /\ [](gameState.isPlaying => PoolSize(settings) > 0)
  /\ [][ (TickRollover \/ handleNext) =>
           /\ \A r \in RandomIndices(settings) :
                getNextChord(settings, gameState.currentChord, r) # NoChord
           /\ gameState'.isPlaying
           /\ gameState'.currentChord # NoChord ]_vars
  /\ [][ (gameState.isPlaying /\ ~gameState'.isPlaying) =>
           handleStop /\ calls' = <<"stopAllSounds", "setGameState">> ]_vars

\* a speed session over a pool of one chord that has rolled over up to the
\* cap of the counter
C36_Witness ==
  /\ gameState.isPlaying
  /\ settings.gameMode = "speed"
  /\ PoolSize(settings) = 1
  /\ gameState.chordChangeCount = MaxChanges
  /\ ticks > 10

(***************************************************************************)
(* C37: the current chord always comes from the pool.  A chord that        *)
(* getRandomChord returns is an element of getAvailableChords(settings),   *)
(* and with the settings unchanged the current chord of a playing session, *)
(* running or paused, is in the pool and satisfies the selection, type and *)
(* difficulty filters.                                                     *)
(***************************************************************************)
PoolIds(st) == { getAvailableChords(st)[i].id : i \in 1..PoolSize(st) }

C37_ChordFromPool ==
  /\ \A r \in RandomIndices(settings) :
       getRandomChord(settings, r) # NoChord => getRandomChord(settings, r) \in PoolIds(settings)
  /\ gameState.isPlaying =>
       /\ gameState.currentChord \in PoolIds(settings)
       /\ StatedFilter(settings, ChordById(gameState.currentChord))

====
